---- MODULE Spec2Model ----
(***************************************************************************)
(* The conversation / game-version state of the page controller            *)
(* (frontend/app/page.tsx, component Home) together with the HTTP client   *)
(* it calls (frontend/app/lib/conversationApi.ts) and the two child        *)
(* components that call back into it (ChatHistory, GamePreview).           *)
(*                                                                         *)
(* An async handler is split at its await: the part before the await is    *)
(* one action, the continuation that runs when the fetch settles is a      *)
(* second action.  The continuation works on the values the handler        *)
(* captured when it was called (the render's closure), which are kept in   *)
(* genCall, and on the functional updates (prev => ...) that read the      *)
(* state current at settle time.                                           *)
(*                                                                         *)
(* Indices are the code's: currentGameIndex and GameVersion.id are         *)
(* zero-based, so position i of the list is gameVersions[i + 1] here.      *)
(* Date timestamps of Message / GameVersion are not modelled; Date.now()   *)
(* is the logical clock `now`.                                             *)
(***************************************************************************)
EXTENDS Integers, Sequences, FiniteSets, TLC

VARIABLES
    messages,                \* useState<Message[]>           page.tsx:13
    gameVersions,            \* useState<GameVersion[]>       page.tsx:16
    currentGameIndex,        \* useState<number>(-1)          page.tsx:17
    isGenerating,            \* useState(false)               page.tsx:18
    currentConversationId,   \* useState<string>('')          page.tsx:19
    currentParentMessageId,  \* useState<string>('')          page.tsx:20
    requestInProgress,       \* useRef(false)                 page.tsx:22
    genCall,                 \* the suspended handleSendMessage call, if any
    loadCalls,               \* suspended handleSelectConversation calls, per id
    now,                     \* Date.now()
    submits,                 \* accepted handleSendMessage calls so far
    requestsSent,            \* generation requests handed to fetch so far
    requestsSettled,         \* generation requests whose fetch has settled
    lastEvent,               \* history: the handler step that ran last
    lastLoaded,              \* history: see LoadSettles
    plainRun,                \* history: only submissions that succeeded so far
    afterReset,              \* history: reset ran; no submission accepted, no load since
    expected,                \* history: see Expect
    http,                    \* the HTTP client call made last, see ClientCall
    parentHome,              \* history: the conversation in which the backend
                             \* holds the message named by currentParentMessageId
    latest                   \* history: see Latest

ctl == <<messages, gameVersions, currentGameIndex, isGenerating,
         currentConversationId, currentParentMessageId, requestInProgress>>
vars == <<messages, gameVersions, currentGameIndex, isGenerating,
          currentConversationId, currentParentMessageId, requestInProgress,
          genCall, loadCalls, now, submits, requestsSent, requestsSettled,
          lastEvent, lastLoaded, plainRun, afterReset, expected, http,
          parentHome, latest>>

----------------------------------------------------------------------------
(* Bounds *)

MaxSubmits == 2
MaxLoads == 2

----------------------------------------------------------------------------
(* Values that come from outside: the user and the backend *)

Prompts == {"p1"}
NewFiles == {[html |-> "edited"]}

\* a JSON field that is absent / a body that is not JSON
Undefined == [undefined |-> TRUE]
InvalidJson == [invalid |-> TRUE]

GameData(t) ==
    [title |-> "T" \o t, description |-> "D" \o t, html_content |-> "H" \o t]

BackendMessage(mid, prompt, gd) ==
    [message_id |-> mid, user_prompt |-> prompt, game_data |-> gd]

ConversationIds == {"c1", "c2"}

\* What the backend holds: c1 has no message, c2 has two.
Conversations ==
    [c \in ConversationIds |->
        [conversation_id |-> c,
         messages |->
            IF c = "c1" THEN <<>>
            ELSE <<BackendMessage("m1", "p1", GameData("m1")),
                   BackendMessage("m2", "p2", GameData("m2"))>>]]

\* The same conversation, sent with its last message lacking game_data.
Damaged(conversationFull) ==
    [conversationFull EXCEPT
        !.messages[Len(conversationFull.messages)].game_data = Undefined]

\* How a fetch settles: it rejects, or resolves with a status and a body.
Reply(fetch, ok, json) == [fetch |-> fetch, ok |-> ok, json |-> json]

\* The body of a backend answer to the k-th generation request.
GameResponse(k, request, gd) ==
    [conversation_id |-> IF request.kind = "new" THEN "n" \o ToString(k)
                         ELSE request.conversation_id,
     message_id |-> "g" \o ToString(k),
     game_data |-> gd]

GenReplies(k, request) ==
    { Reply("rejects", FALSE, InvalidJson),
      Reply("resolves", FALSE, InvalidJson),
      Reply("resolves", TRUE, InvalidJson),
      Reply("resolves", TRUE, GameResponse(k, request, GameData("g" \o ToString(k)))),
      Reply("resolves", TRUE, GameResponse(k, request, Undefined)) }

LoadReplies(c) ==
    { Reply("rejects", FALSE, InvalidJson),
      Reply("resolves", FALSE, InvalidJson),
      Reply("resolves", TRUE, InvalidJson),
      Reply("resolves", TRUE, Conversations[c]) }
    \cup (IF Conversations[c].messages = <<>> THEN {}
          ELSE { Reply("resolves", TRUE, Damaged(Conversations[c])) })

----------------------------------------------------------------------------
(* History variables *)

\* the values of the history variable lastLoaded: the conversation whose
\* fetched data the last state-changing step converted, whether that data
\* was damaged, and whether the state-changing step before it had converted
\* the same data
NoLoad == [id |-> "", damaged |-> FALSE, again |-> FALSE]
Loaded(prev, conversationFull) ==
    [id |-> conversationFull.conversation_id,
     damaged |-> conversationFull \notin {Conversations[c] : c \in ConversationIds},
     again |-> /\ prev.id = conversationFull.conversation_id
               /\ prev.damaged =
                    (conversationFull \notin {Conversations[c] : c \in ConversationIds})]

\* the values of the history variable expected: the thread a step left for
\* the next request. A generation that ran to its end leaves the ids of its
\* response; a load that replaced the lists with at least one message while
\* no generation request was outstanding leaves the loaded conversation and
\* the id of its last message; a reset, a failure and an accepted submission
\* leave nothing; every other step leaves the variable as it is.
NoExpectation == [from |-> "", conversation_id |-> "", parent_message_id |-> ""]
Expect(from, conversationId, parentMessageId) ==
    [from |-> from, conversation_id |-> conversationId,
     parent_message_id |-> parentMessageId]

\* The history variables parentHome and latest are recorded only in the
\* behaviours that start with them switched on (HistoryInit); in the others
\* they keep the value NotRecorded and add no states.
NotRecorded == "not recorded"
Record(history, value) == IF history = NotRecorded THEN history ELSE value

\* the values of the history variable latest, kept while a load is
\* outstanding: the conversation handleSelectConversation was called for
\* last, and how that call has ended so far
NoLatest == [id |-> "", outcome |-> ""]
Latest(conversationId, outcome) == [id |-> conversationId, outcome |-> outcome]
RecordLatest(history, value) == IF history.id = NotRecorded THEN history ELSE value

\* the value of the history variable lastEvent
Event(op, result) == [op |-> op, result |-> result]

----------------------------------------------------------------------------
(* conversationApi.ts *)

Threw == [threw |-> TRUE]
Returned(v) == [threw |-> FALSE, value |-> v]

\* fetch, then `if (!response.ok) throw`, then `return await response.json()`
FetchJson(reply) ==
    IF reply.fetch = "rejects" THEN Threw
    ELSE IF ~reply.ok THEN Threw
    ELSE IF reply.json = InvalidJson THEN Threw
    ELSE Returned(reply.json)

getModels(reply) == FetchJson(reply)
createNewGame(reply) == FetchJson(reply)
createHistoryBasedGame(reply) == FetchJson(reply)
getConversationsList(reply) == FetchJson(reply)
getConversationFull(reply) == FetchJson(reply)

----------------------------------------------------------------------------
(* aiClient.ts *)

\* `data.success` of a parsed body: undefined, hence falsy, when the field
\* is not there
Success(json) == "success" \in DOMAIN json /\ json.success

\* lines 6-38: fetch, `if (!response.ok) throw`, response.json(),
\* `if (!data.success) throw`, `return data.data`; the catch rethrows
generateGame(reply) ==
    IF reply.fetch = "rejects" THEN Threw
    ELSE IF ~reply.ok THEN Threw
    ELSE IF reply.json = InvalidJson THEN Threw
    ELSE IF ~Success(reply.json) THEN Threw
    ELSE Returned(reply.json.data)

\* lines 41-51: fetch, response.json(), `return data`; response.ok is not read
checkBackendHealth(reply) ==
    IF reply.fetch = "rejects" THEN Threw
    ELSE IF reply.json = InvalidJson THEN Threw
    ELSE Returned(reply.json)

----------------------------------------------------------------------------
(* The HTTP client layer on its own: each operation against each answer *)

ClientOps == {"getModels", "getConversationsList", "getConversationFull",
              "createNewGame", "createHistoryBasedGame", "generateGame",
              "checkBackendHealth"}

\* the status codes the backend is made to answer with
Statuses == {200, 201, 404, 500, 503}

\* Response.ok of the fetch API: the status is in the range 200-299
Ok(status) == status \in 200..299

\* bodies: not JSON; the legacy envelope, succeeding and failing; a plain object
Bodies == {InvalidJson,
           [success |-> TRUE, data |-> "payload"],
           [success |-> FALSE, error |-> "failed"],
           [status |-> "unhealthy"]}

\* how the fetch of a client operation ends: it rejects (no response, status
\* 0), or it resolves with a status and a body
Answers ==
    {[fetch |-> "rejects", status |-> 0, body |-> InvalidJson]}
    \cup {[fetch |-> "resolves", status |-> status, body |-> body] :
              status \in Statuses, body \in Bodies}

ClientResult(op, reply) ==
    CASE op = "getModels" -> getModels(reply)
      [] op = "getConversationsList" -> getConversationsList(reply)
      [] op = "getConversationFull" -> getConversationFull(reply)
      [] op = "createNewGame" -> createNewGame(reply)
      [] op = "createHistoryBasedGame" -> createHistoryBasedGame(reply)
      [] op = "generateGame" -> generateGame(reply)
      [] op = "checkBackendHealth" -> checkBackendHealth(reply)

----------------------------------------------------------------------------
(* page.tsx: handleSendMessage *)

NoCall == [active |-> FALSE]

\* Rejects without the test of the guard
NeverRejects(inProgress) == FALSE

\* line 36: if (requestInProgress.current) return
Rejects(inProgress) == inProgress

\* IsNewGame with && in place of ||
IsNewGameBothEmpty(conversationId, parentMessageId) ==
    conversationId = "" /\ parentMessageId = ""

\* line 58: if (!currentConversationId || !currentParentMessageId)
IsNewGame(conversationId, parentMessageId) ==
    conversationId = "" \/ parentMessageId = ""

\* lines 60 and 67-72: the request body
Request(conversationId, parentMessageId, content) ==
    IF IsNewGame(conversationId, parentMessageId)
    THEN [kind |-> "new", user_prompt |-> content]
    ELSE [kind |-> "history",
          conversation_id |-> conversationId,
          parent_message_id |-> parentMessageId,
          user_prompt |-> content]

\* lines 44-49
UserMessage(content, t) ==
    [id |-> ToString(t), role |-> "user", content |-> content]

\* lines 79-84
AiMessage(gameResponse) ==
    [id |-> gameResponse.message_id, role |-> "assistant",
     content |-> "generated: " \o gameResponse.game_data.title]

\* lines 103-108
ErrorMessage(t) ==
    [id |-> ToString(t + 1), role |-> "assistant", content |-> "error, retry"]

\* NewVersionId counting from one
NewVersionIdFromOne(capturedLength) == capturedLength + 1

\* line 88: id: gameVersions.length (the list the handler was called with)
NewVersionId(capturedLength) == capturedLength

\* lines 87-94
NewGameVersion(capturedLength, gameResponse, content) ==
    [id |-> NewVersionId(capturedLength),
     files |-> [html |-> gameResponse.game_data.html_content],
     description |-> gameResponse.game_data.description,
     userPrompt |-> content,
     messageId |-> gameResponse.message_id]

\* AppendVersion putting the new version in front
PrependVersion(prev, newGameVersion) == <<newGameVersion>> \o prev

\* line 98: setGameVersions(prev => [...prev, newGameVersion])
AppendVersion(prev, newGameVersion) == Append(prev, newGameVersion)

\* Finally as the last statements of the try block: skipped when it throws
ReleaseOnSuccessOnly(result) == result # "ok"

\* lines 110-113: finally { setIsGenerating(false); requestInProgress.current = false }
\* (the value both flags get, whichever way the try block ended)
Finally(result) == FALSE

\* ResentInCatch with one automatic retry of a request that failed
ResentOnceInCatch(result) == IF result = "ok" THEN 0 ELSE 1

\* lines 101-109: the catch block logs and appends the failure notice; it
\* calls neither createNewGame nor createHistoryBasedGame again (the number
\* of requests the continuation hands to fetch, however the try block ended)
ResentInCatch(result) == 0

\* How the try block of lines 55-100 ends for a reply: createNewGame /
\* createHistoryBasedGame throws ("threw"), or line 82 reads .title of a
\* game_data that is not there ("threwLate"), or it runs to line 99 ("ok").
TryResult(request, reply) ==
    LET res == IF request.kind = "new"
               THEN createNewGame(reply)
               ELSE createHistoryBasedGame(reply)
    IN  IF res.threw THEN "threw"
        ELSE IF res.value.game_data = Undefined THEN "threwLate"
        ELSE "ok"

\* lines 34-53 and the fetch of line 60 / 67: the handler up to its await
SubmitPrompt(content) ==
    IF Rejects(requestInProgress)
    THEN /\ lastEvent' = Event("submitPrompt", "rejected")
         /\ UNCHANGED <<ctl, genCall, loadCalls, now, submits, requestsSent,
                        requestsSettled, lastLoaded, plainRun, afterReset,
                        expected, http, parentHome, latest>>
    ELSE /\ submits < MaxSubmits
         /\ requestInProgress' = TRUE
         /\ LET newMessages == Append(messages, UserMessage(content, now))
            IN /\ messages' = newMessages
               /\ genCall' =
                    [active |-> TRUE,
                     content |-> content,
                     newMessages |-> newMessages,
                     gameVersionsLength |-> Len(gameVersions),
                     request |-> Request(currentConversationId,
                                         currentParentMessageId, content)]
         /\ isGenerating' = TRUE
         /\ requestsSent' = requestsSent + 1
         /\ submits' = submits + 1
         /\ now' = now + 1
         /\ lastEvent' = Event("submitPrompt", "accepted")
         /\ lastLoaded' = NoLoad
         /\ afterReset' = FALSE
         /\ expected' = NoExpectation
         /\ UNCHANGED <<gameVersions, currentGameIndex, currentConversationId,
                        currentParentMessageId, loadCalls, requestsSettled,
                        plainRun, http, parentHome, latest>>

\* lines 60-113: the handler from the point its fetch settles
GenerationSettles(reply) ==
    /\ genCall.active
    /\ LET res == IF genCall.request.kind = "new"
                  THEN createNewGame(reply)
                  ELSE createHistoryBasedGame(reply)
       IN  IF res.threw
           THEN \* catch, lines 101-109
                /\ messages' = Append(messages, ErrorMessage(now))
                /\ lastEvent' = Event("generationSettles", "threw")
                /\ UNCHANGED <<gameVersions, currentGameIndex,
                               currentConversationId, currentParentMessageId,
                               parentHome>>
           ELSE LET gameResponse == res.value IN
                \* lines 63-64 and 75 run before the response is looked into
                /\ currentConversationId' =
                     IF genCall.request.kind = "new"
                     THEN gameResponse.conversation_id
                     ELSE currentConversationId
                /\ currentParentMessageId' = gameResponse.message_id
                /\ parentHome' = Record(parentHome, gameResponse.conversation_id)
                /\ IF gameResponse.game_data = Undefined
                   THEN \* line 82 throws a TypeError; catch, lines 101-109
                        /\ messages' = Append(messages, ErrorMessage(now))
                        /\ lastEvent' = Event("generationSettles", "threwLate")
                        /\ UNCHANGED <<gameVersions, currentGameIndex>>
                   ELSE \* lines 96-99
                        /\ messages' = Append(genCall.newMessages,
                                              AiMessage(gameResponse))
                        /\ gameVersions' =
                             AppendVersion(gameVersions,
                                    NewGameVersion(genCall.gameVersionsLength,
                                                   gameResponse, genCall.content))
                        /\ currentGameIndex' = genCall.gameVersionsLength
                        /\ lastEvent' = Event("generationSettles", "ok")
    /\ isGenerating' = Finally(TryResult(genCall.request, reply))
    /\ requestInProgress' = Finally(TryResult(genCall.request, reply))
    /\ genCall' = NoCall
    /\ now' = now + 2
    /\ lastLoaded' = NoLoad
    /\ plainRun' = (plainRun /\ lastEvent'.result = "ok")
    /\ requestsSettled' = requestsSettled + 1
    /\ expected' = IF lastEvent'.result = "ok"
                   THEN Expect("generation", currentConversationId',
                               currentParentMessageId')
                   ELSE NoExpectation
    /\ requestsSent' =
         requestsSent + ResentInCatch(TryResult(genCall.request, reply))
    /\ UNCHANGED <<loadCalls, submits, afterReset, http, latest>>

\* the fetch of the suspended call settles in one of the ways a fetch can
GenerationResponse ==
    /\ genCall.active
    /\ \E reply \in GenReplies(submits, genCall.request) : GenerationSettles(reply)

----------------------------------------------------------------------------
(* page.tsx: handleSelectGameVersion, handleGameVersionUpdate;               *)
(* GamePreview.tsx: handleFilesChange; ChatHistory: the version buttons      *)

\* page.tsx line 217: gameVersion={currentGameIndex >= 0 ?
\* gameVersions[currentGameIndex] : null}; an index past the end reads undefined
HasSelectedVersion ==
    currentGameIndex >= 0 /\ currentGameIndex < Len(gameVersions)

SelectedVersion == gameVersions[currentGameIndex + 1]

\* lines 121-125: prev.map(version => version.id === updatedVersion.id ?
\* updatedVersion : version)
handleGameVersionUpdate(prev, updatedVersion) ==
    [i \in 1..Len(prev) |->
        IF prev[i].id = updatedVersion.id THEN updatedVersion ELSE prev[i]]

\* GamePreview.tsx lines 30-38: { ...gameVersion, files: newFiles }
handleFilesChange(gameVersion, newFiles) ==
    [gameVersion EXCEPT !.files = newFiles]

\* the editor of the shown version hands in new files
UpdateVersionFiles(newFiles) ==
    /\ HasSelectedVersion
    /\ gameVersions' =
         handleGameVersionUpdate(gameVersions,
                                 handleFilesChange(SelectedVersion, newFiles))
    /\ lastEvent' = Event("updateVersionFiles", "")
    /\ lastLoaded' = NoLoad
    /\ UNCHANGED <<messages, currentGameIndex, isGenerating,
                   currentConversationId, currentParentMessageId,
                   requestInProgress, genCall, loadCalls, now, submits,
                   requestsSent, requestsSettled, plainRun, afterReset,
                   expected, http, parentHome, latest>>

\* lines 116-118, called from the button of a listed version
\* (ChatHistory: gameVersions.map((gameVersion, index) => ... onClick))
SelectVersion(index) ==
    /\ currentGameIndex' = index
    /\ lastEvent' = Event("selectVersion",
                          IF index \in 0..(Len(gameVersions) - 1)
                          THEN "inRange" ELSE "outOfRange")
    /\ lastLoaded' = NoLoad
    /\ UNCHANGED <<messages, gameVersions, isGenerating,
                   currentConversationId, currentParentMessageId,
                   requestInProgress, genCall, loadCalls, now, submits,
                   requestsSent, requestsSettled, plainRun, afterReset,
                   expected, http, parentHome, latest>>

----------------------------------------------------------------------------
(* page.tsx: handleSelectConversation, handleNewConversation *)

\* lines 142-147 and 151-156: the two Messages of one backend message
LoadedUserMessage(backendMsg) ==
    [id |-> backendMsg.message_id \o "_user", role |-> "user",
     content |-> backendMsg.user_prompt]

LoadedAssistantMessage(backendMsg) ==
    [id |-> backendMsg.message_id, role |-> "assistant",
     content |-> "generated: " \o backendMsg.game_data.title]

\* LoadedMessages pushing the assistant Message before the user Message
LoadedMessagesAssistantFirst(backendMsgs) ==
    [i \in 1..(2 * Len(backendMsgs)) |->
        IF i % 2 = 1
        THEN LoadedAssistantMessage(backendMsgs[(i + 1) \div 2])
        ELSE LoadedUserMessage(backendMsgs[i \div 2])]

\* lines 137-169, the Message list built by the forEach
LoadedMessages(backendMsgs) ==
    [i \in 1..(2 * Len(backendMsgs)) |->
        IF i % 2 = 1
        THEN LoadedUserMessage(backendMsgs[(i + 1) \div 2])
        ELSE LoadedAssistantMessage(backendMsgs[i \div 2])]

\* lines 160-168, the GameVersion list built by the forEach
LoadedGameVersions(backendMsgs) ==
    [i \in 1..Len(backendMsgs) |->
        [id |-> i - 1,
         files |-> [html |-> backendMsgs[i].game_data.html_content],
         description |-> backendMsgs[i].game_data.description,
         userPrompt |-> backendMsgs[i].user_prompt,
         messageId |-> backendMsgs[i].message_id]]

\* lines 154 and 162 read backendMsg.game_data.title / .html_content: the
\* forEach throws at the first message without game_data
Convertible(backendMsgs) ==
    \A i \in 1..Len(backendMsgs) : backendMsgs[i].game_data # Undefined

\* SetLoaded as a merge into the list held before
MergeLoaded(prev, loaded) == prev \o loaded

\* lines 171-172: setMessages(loadedMessages), setGameVersions(loadedGameVersions):
\* the new list of a state variable that held prev
SetLoaded(prev, loaded) == loaded

\* LoadedIndex selecting position 0 of an empty list
LoadedIndexZero(n) == IF n > 0 THEN n - 1 ELSE 0

\* line 173
LoadedIndex(n) == IF n > 0 THEN n - 1 ELSE -1

\* LoadedParentMessageId taking the id of the first message
LoadedParentOfFirst(backendMsgs, current) ==
    IF Len(backendMsgs) > 0 THEN backendMsgs[1].message_id ELSE current

\* lines 176-179: if (fullConversation.messages.length > 0) the id of the last
\* message is stored; otherwise the state variable keeps what it held
LoadedParentMessageId(backendMsgs, current) ==
    IF Len(backendMsgs) > 0 THEN backendMsgs[Len(backendMsgs)].message_id
    ELSE current

\* the getConversationFull fetches that have not settled yet
OutstandingLoads == loadCalls["c1"] + loadCalls["c2"]

\* line 132 up to the await: the fetch is sent, nothing else happens
LoadConversation(conversationId) ==
    /\ OutstandingLoads < MaxLoads
    /\ loadCalls' = [loadCalls EXCEPT ![conversationId] = @ + 1]
    /\ lastEvent' = Event("loadConversation", "")
    /\ afterReset' = FALSE
    /\ UNCHANGED <<ctl, genCall, now, submits, requestsSent, requestsSettled,
                   lastLoaded, plainRun, expected, http, parentHome>>
    /\ latest' = RecordLatest(latest, Latest(conversationId, "pending"))

\* lines 132-183 from the point the fetch settles
LoadSettles(conversationId, reply) ==
    /\ loadCalls[conversationId] > 0
    /\ loadCalls' = [loadCalls EXCEPT ![conversationId] = @ - 1]
    /\ LET res == getConversationFull(reply) IN
       IF res.threw
       THEN \* catch, lines 181-183
            /\ lastEvent' = Event("loadSettles", "threw")
            /\ UNCHANGED <<messages, gameVersions, currentGameIndex,
                           currentConversationId, currentParentMessageId,
                           lastLoaded, plainRun, afterReset, expected,
                           parentHome>>
       ELSE LET conversationFull == res.value
                n == Len(conversationFull.messages) IN
            \* line 134 runs before the messages are converted
            /\ currentConversationId' = conversationFull.conversation_id
            /\ lastLoaded' = Loaded(lastLoaded, conversationFull)
            /\ plainRun' = FALSE
            /\ afterReset' = FALSE
            /\ IF ~Convertible(conversationFull.messages)
               THEN \* TypeError inside the forEach; catch, lines 181-183
                    /\ lastEvent' = Event("loadSettles", "threwLate")
                    /\ expected' = NoExpectation
                    /\ UNCHANGED <<messages, gameVersions, currentGameIndex,
                                   currentParentMessageId, parentHome>>
               ELSE \* lines 171-179
                    /\ messages' =
                         SetLoaded(messages, LoadedMessages(conversationFull.messages))
                    /\ gameVersions' =
                         SetLoaded(gameVersions,
                                   LoadedGameVersions(conversationFull.messages))
                    /\ currentGameIndex' = LoadedIndex(n)
                    /\ currentParentMessageId' =
                         LoadedParentMessageId(conversationFull.messages,
                                               currentParentMessageId)
                    /\ parentHome' =
                         IF n > 0
                         THEN Record(parentHome, conversationFull.conversation_id)
                         ELSE parentHome
                    /\ lastEvent' = Event("loadSettles", "ok")
                    /\ expected' =
                         IF n > 0 /\ ~requestInProgress
                         THEN Expect("load", conversationFull.conversation_id,
                                     conversationFull.messages[n].message_id)
                         ELSE NoExpectation
    /\ latest' =
         RecordLatest(latest,
            IF OutstandingLoads = 1 THEN NoLatest
            ELSE IF latest.id = conversationId /\ loadCalls[conversationId] = 1
                 THEN Latest(conversationId,
                             IF lastEvent'.result = "ok" THEN "ok" ELSE "failed")
                 ELSE latest)
    /\ UNCHANGED <<isGenerating, requestInProgress, genCall, now, submits,
                   requestsSent, requestsSettled, http>>

\* handleNewConversation without the line that clears the parent id
handleNewConversationKeepsParent ==
    /\ currentConversationId' = ""
    /\ currentParentMessageId' = currentParentMessageId
    /\ messages' = <<>>
    /\ gameVersions' = <<>>
    /\ currentGameIndex' = -1

\* lines 187-194
handleNewConversation ==
    /\ currentConversationId' = ""
    /\ currentParentMessageId' = ""
    /\ messages' = <<>>
    /\ gameVersions' = <<>>
    /\ currentGameIndex' = -1

ResetConversation ==
    /\ handleNewConversation
    /\ lastEvent' = Event("resetConversation", "")
    /\ lastLoaded' = NoLoad
    /\ plainRun' = FALSE
    /\ afterReset' = TRUE
    /\ expected' = NoExpectation
    /\ parentHome' = Record(parentHome, "")
    /\ UNCHANGED <<isGenerating, requestInProgress, genCall, loadCalls, now,
                   submits, requestsSent, requestsSettled, http, latest>>

\* a suspended load's fetch settles in one of the ways a fetch can
LoadResponse ==
    \E c \in ConversationIds : \E reply \in LoadReplies(c) : LoadSettles(c, reply)

----------------------------------------------------------------------------
\* no HTTP client call has been made
NoHttp == [op |-> ""]

InitController ==
    /\ messages = <<>>
    /\ gameVersions = <<>>
    /\ currentGameIndex = -1
    /\ isGenerating = FALSE
    /\ currentConversationId = ""
    /\ currentParentMessageId = ""
    /\ requestInProgress = FALSE
    /\ genCall = NoCall
    /\ loadCalls = [c \in ConversationIds |-> 0]
    /\ now = 1
    /\ submits = 0
    /\ requestsSent = 0
    /\ requestsSettled = 0
    /\ lastEvent = Event("init", "")
    /\ lastLoaded = NoLoad
    /\ plainRun = TRUE
    /\ afterReset = FALSE
    /\ expected = NoExpectation
    /\ http = NoHttp

Init ==
    /\ InitController
    /\ parentHome = NotRecorded
    /\ latest = Latest(NotRecorded, "")

\* the same initial state, with parentHome and latest recorded
HistoryInit ==
    /\ InitController
    /\ parentHome = ""
    /\ latest = NoLatest

Next ==
    \/ \E content \in Prompts : SubmitPrompt(content)
    \/ GenerationResponse
    \/ \E c \in ConversationIds : LoadConversation(c)
    \/ LoadResponse
    \/ ResetConversation
    \/ \E index \in 0..(Len(gameVersions) - 1) : SelectVersion(index)
    \/ \E newFiles \in NewFiles : UpdateVersionFiles(newFiles)

Spec == Init /\ [][Next]_vars

\* the controller, with the history variables parentHome and latest recorded
HistorySpec == HistoryInit /\ [][Next]_vars

\* every outstanding generation request settles (the premise of C10)
FairSpec == Spec /\ WF_vars(GenerationResponse)

\* one call of a client operation, run to its end against one answer
ClientCall(op, answer) ==
    /\ http' = [op |-> op,
                status |-> answer.status,
                reply |-> Reply(answer.fetch, Ok(answer.status), answer.body),
                result |-> ClientResult(op, Reply(answer.fetch, Ok(answer.status),
                                                  answer.body))]
    /\ UNCHANGED <<ctl, genCall, loadCalls, now, submits, requestsSent,
                   requestsSettled, lastEvent, lastLoaded, plainRun, afterReset,
                   expected, parentHome, latest>>

ClientNext == \E op \in ClientOps : \E answer \in Answers : ClientCall(op, answer)

\* the client functions called directly, the controller left in its initial state
ClientSpec == Init /\ [][ClientNext]_vars

\* handleSelectGameVersion takes any number: the indices just outside the
\* list, which no button of ChatHistory passes but a caller of the handler can
OutOfRange == {-2, Len(gameVersions)}

RawNext ==
    \/ Next
    \/ \E index \in OutOfRange : SelectVersion(index)

\* the controller with handleSelectGameVersion open to any caller
RawSpec == Init /\ [][RawNext]_vars

----------------------------------------------------------------------------
(* Properties *)

\* this step is a handleSendMessage call that got past the guard
AcceptedSubmit ==
    /\ lastEvent'.op = "submitPrompt"
    /\ lastEvent'.result = "accepted"
    /\ ~requestInProgress

\* C1: a submitPrompt call made while the in-flight guard is set changes no
\* controller state, suspends no call and hands no request to fetch; and a
\* request is only ever handed to fetch by a call that found the guard clear
\* (nothing is queued and sent later).
C1_GuardedSubmitDropped ==
    [][ /\ (lastEvent'.op = "submitPrompt" /\ requestInProgress)
            => UNCHANGED <<ctl, genCall, requestsSent>>
        /\ (requestsSent' # requestsSent)
            => (AcceptedSubmit /\ requestsSent' = requestsSent + 1) ]_vars

C1_Witness ==
    /\ lastEvent.op = "submitPrompt"
    /\ lastEvent.result = "rejected"
    /\ requestInProgress

\* C2 (as claimed): the selection index is -1 or a position of the current
\* GameVersion list.
C2_SelectionValid ==
    \/ currentGameIndex = -1
    \/ (0 <= currentGameIndex /\ currentGameIndex < Len(gameVersions))

\* C3: as long as nothing but submissions that succeeded has changed the
\* state since the start, the version list holds one entry per completed
\* submission and the entry at position k has id k.
C3_SequentialIds ==
    plainRun =>
        /\ Len(gameVersions) = submits - (IF requestInProgress THEN 1 ELSE 0)
        /\ \A k \in 1..Len(gameVersions) : gameVersions[k].id = k - 1

C3_Witness ==
    /\ plainRun
    /\ ~requestInProgress
    /\ submits = MaxSubmits
    /\ Len(gameVersions) = MaxSubmits

\* C4 (as claimed): the continuation that ends in the failure path leaves
\* conversationId, parentMessageId and the length of the version list as
\* they were.
C4_FailureKeepsThread ==
    [][ (lastEvent'.op = "generationSettles" /\ lastEvent'.result # "ok")
            => /\ currentConversationId' = currentConversationId
               /\ currentParentMessageId' = currentParentMessageId
               /\ Len(gameVersions') = Len(gameVersions) ]_vars

\* C5 (as claimed): an accepted submitPrompt issues a new-game request iff
\* conversationId and parentMessageId are both empty.
C5_NewIffBothEmpty ==
    [][ AcceptedSubmit
            => (genCall'.request.kind = "new"
                <=> (currentConversationId = "" /\ currentParentMessageId = "")) ]_vars

\* C5 (amended): an accepted submitPrompt issues a new-game request iff at
\* least one of conversationId and parentMessageId is empty; otherwise it
\* issues a history-based request that carries the current conversationId
\* and parentMessageId.
C5_NewIffEitherEmpty ==
    [][ AcceptedSubmit
            => /\ genCall'.request.kind = "new"
                    <=> (currentConversationId = "" \/ currentParentMessageId = "")
               /\ genCall'.request.kind # "new"
                    => /\ genCall'.request.kind = "history"
                       /\ genCall'.request.conversation_id = currentConversationId
                       /\ genCall'.request.parent_message_id = currentParentMessageId ]_vars

\* a new-game request was issued with a conversationId and no parentMessageId
C5_Witness ==
    /\ lastEvent.op = "submitPrompt"
    /\ lastEvent.result = "accepted"
    /\ genCall.request.kind = "new"
    /\ currentConversationId # ""
    /\ currentParentMessageId = ""

\* C6 (as claimed): the first submitPrompt accepted after resetConversation,
\* with no loadConversation in between, issues a new-game request.
C6_NewGameAfterReset ==
    [][ (AcceptedSubmit /\ afterReset) => genCall'.request.kind = "new" ]_vars

\* this step is the continuation of a load whose fetch brought the
\* conversation's data
LoadConverted ==
    /\ lastEvent'.op = "loadSettles"
    /\ lastEvent'.result # "threw"

\* C7: when the last state-changing step was the completion of a load of a
\* conversation, the completion of a second load of the same conversation
\* leaves the Message list, the GameVersion list and the selection index
\* as the first left them.
C7_LoadIdempotent ==
    [][ (LoadConverted /\ lastLoaded'.again)
            => /\ messages' = messages
               /\ gameVersions' = gameVersions
               /\ currentGameIndex' = currentGameIndex ]_vars

C7_Witness ==
    /\ lastEvent = Event("loadSettles", "ok")
    /\ lastLoaded = [id |-> "c2", damaged |-> FALSE, again |-> TRUE]
    /\ gameVersions # <<>>

\* C8: right after a successful load of a conversation without messages the
\* Message list and the GameVersion list are empty and nothing is selected.
C8_EmptyConversation ==
    (/\ lastEvent.op = "loadSettles"
     /\ lastEvent.result = "ok"
     /\ Conversations[currentConversationId].messages = <<>>)
        => /\ messages = <<>>
           /\ gameVersions = <<>>
           /\ currentGameIndex = -1

C8_Witness ==
    /\ lastEvent = Event("loadSettles", "ok")
    /\ currentConversationId = "c1"
    /\ submits > 0

\* C9 (as claimed): updateVersionFiles leaves everything but the version
\* list alone, keeps the length of the list, and every entry is afterwards
\* what it was, except that an entry with the given id may differ in its
\* files field.
C9_OnlyFilesOfTarget ==
    [][ lastEvent'.op = "updateVersionFiles"
            => /\ UNCHANGED <<messages, currentGameIndex,
                              currentConversationId, currentParentMessageId>>
               /\ Len(gameVersions') = Len(gameVersions)
               /\ \A i \in 1..Len(gameVersions) :
                    \/ gameVersions'[i] = gameVersions[i]
                    \/ /\ gameVersions[i].id = SelectedVersion.id
                       /\ gameVersions'[i] =
                            [gameVersions[i] EXCEPT !.files = gameVersions'[i].files] ]_vars

\* C10: every accepted submitPrompt is followed by a state in which the
\* in-flight guard and the generating flag are both clear.
C10_GuardReleased ==
    requestInProgress ~> (~requestInProgress /\ ~isGenerating)

\* the guard is clear again after a continuation that went through catch
C10_Witness ==
    /\ lastEvent.op = "generationSettles"
    /\ lastEvent.result = "threwLate"
    /\ ~requestInProgress
    /\ ~isGenerating

\* the generation requests handed to fetch that have not settled
OutstandingRequests == requestsSent - requestsSettled

\* C11: the in-flight guard is set exactly while a generation request is
\* outstanding, at most one is outstanding, the generating flag equals the
\* guard, and the steps of loadConversation, resetConversation,
\* selectVersion and updateVersionFiles change neither.
C11_GuardTracksRequest ==
    /\ [](/\ OutstandingRequests \in {0, 1}
          /\ requestInProgress <=> (OutstandingRequests = 1)
          /\ isGenerating = requestInProgress)
    /\ [][ lastEvent'.op \in {"loadConversation", "loadSettles", "resetConversation",
                              "selectVersion", "updateVersionFiles"}
            => UNCHANGED <<requestInProgress, isGenerating>> ]_vars

\* a reset ran while the request was outstanding and the guard is still set
C11_Witness ==
    /\ lastEvent.op = "resetConversation"
    /\ requestInProgress
    /\ OutstandingRequests = 1

\* this step is a generation call running to its end (line 99)
GenerationSucceeds ==
    /\ lastEvent'.op = "generationSettles"
    /\ lastEvent'.result = "ok"
    /\ genCall.active

\* C12: a submitPrompt that succeeds leaves parentMessageId equal to the
\* message_id of its response, sets conversationId from the response on the
\* new-game branch and leaves it alone on the history branch; and the next
\* accepted submitPrompt, with no load or reset in between, sends a
\* history-based request whose parent_message_id is that message_id.
C12_ThreadAdvance ==
    [][ /\ GenerationSucceeds =>
            /\ currentParentMessageId' =
                 GameResponse(submits, genCall.request, Undefined).message_id
            /\ currentConversationId' =
                 IF genCall.request.kind = "new"
                 THEN GameResponse(submits, genCall.request, Undefined).conversation_id
                 ELSE currentConversationId
        /\ (AcceptedSubmit /\ expected.from = "generation") =>
            /\ genCall'.request.kind = "history"
            /\ genCall'.request.parent_message_id = expected.parent_message_id
      ]_vars

\* C13: right after a submitPrompt succeeds the selection index is the
\* position, in the current GameVersion list, of the GameVersion this call
\* appended (the last entry, whose messageId is the response's message_id),
\* whatever ran while the call was outstanding.
C13_SelectsAppendedVersion ==
    (lastEvent = Event("generationSettles", "ok")) =>
        /\ currentGameIndex = Len(gameVersions) - 1
        /\ gameVersions[Len(gameVersions)].messageId = currentParentMessageId

\* C14: a load that succeeds with N backend messages leaves exactly 2N
\* Messages, entry 2k the user Message holding the prompt of backend message
\* k and entry 2k+1 the assistant Message whose id is that message's id, and
\* exactly N GameVersions, the k-th with id k and the messageId of backend
\* message k (k counted from 0).
C14_LoadExpansion ==
    (lastEvent = Event("loadSettles", "ok")) =>
        LET backendMsgs == Conversations[currentConversationId].messages
            N == Len(backendMsgs)
        IN  /\ Len(messages) = 2 * N
            /\ Len(gameVersions) = N
            /\ \A k \in 0..(N - 1) :
                  /\ messages[2 * k + 1].role = "user"
                  /\ messages[2 * k + 1].content = backendMsgs[k + 1].user_prompt
                  /\ messages[2 * k + 2].role = "assistant"
                  /\ messages[2 * k + 2].id = backendMsgs[k + 1].message_id
                  /\ gameVersions[k + 1].id = k
                  /\ gameVersions[k + 1].messageId = backendMsgs[k + 1].message_id

\* a load of the conversation with two messages has just succeeded
C14_Witness ==
    /\ lastEvent = Event("loadSettles", "ok")
    /\ currentConversationId = "c2"
    /\ Len(messages) = 4

\* C15: a load that succeeds with N >= 1 messages leaves the selection
\* index at N - 1, and when no generation request was outstanding the next
\* accepted submitPrompt sends a history-based request whose conversation_id
\* is the loaded conversation's id and whose parent_message_id is the id of
\* its last backend message.
C15_ContinueAfterLoad ==
    /\ [](lastEvent = Event("loadSettles", "ok") /\ ~requestInProgress
              /\ Len(Conversations[currentConversationId].messages) > 0
          => currentGameIndex =
                 Len(Conversations[currentConversationId].messages) - 1)
    /\ [][ (AcceptedSubmit /\ expected.from = "load") =>
            LET loaded == Conversations[expected.conversation_id] IN
            /\ genCall'.request.kind = "history"
            /\ genCall'.request.conversation_id = loaded.conversation_id
            /\ genCall'.request.parent_message_id =
                 loaded.messages[Len(loaded.messages)].message_id ]_vars

\* a load of the conversation with two messages has just succeeded with no
\* generation request outstanding, and a submission can still follow
C15_Witness ==
    /\ lastEvent = Event("loadSettles", "ok")
    /\ expected = Expect("load", "c2", "m2")
    /\ ~requestInProgress
    /\ currentGameIndex = 1
    /\ submits < MaxSubmits

\* what a load of a conversation leaves when it starts from the initial state
FreshLoad(conversationFull) ==
    [conversationId |-> conversationFull.conversation_id,
     parentMessageId |-> LoadedParentMessageId(conversationFull.messages, ""),
     messages |-> LoadedMessages(conversationFull.messages),
     gameVersions |-> LoadedGameVersions(conversationFull.messages),
     currentGameIndex |-> LoadedIndex(Len(conversationFull.messages))]

\* C16: a load is a full replace: whatever the state before it, a load of a
\* conversation that succeeds (zero messages included) ends with the same
\* conversationId, parentMessageId, Message list, GameVersion list and
\* selection index, the ones the load gives from the initial state.
C16_LoadReplacesAll ==
    (lastEvent = Event("loadSettles", "ok")) =>
        [conversationId |-> currentConversationId,
         parentMessageId |-> currentParentMessageId,
         messages |-> messages,
         gameVersions |-> gameVersions,
         currentGameIndex |-> currentGameIndex]
          = FreshLoad(Conversations[currentConversationId])

\* C17: right after resetConversation, from whatever state it ran in,
\* conversationId and parentMessageId are empty, the Message list and the
\* GameVersion list are empty and the selection index is -1.
C17_ResetClearsAll ==
    (lastEvent.op = "resetConversation") =>
        /\ currentConversationId = ""
        /\ currentParentMessageId = ""
        /\ messages = <<>>
        /\ gameVersions = <<>>
        /\ currentGameIndex = -1

\* a reset ran after a generation request had settled
C17_Witness ==
    /\ lastEvent.op = "resetConversation"
    /\ requestsSettled > 0
    /\ plainRun = FALSE
    /\ expected = NoExpectation
    /\ currentGameIndex = -1

\* C18: selectVersion changes nothing but the selection index; called with
\* an index outside the current GameVersion list it is rejected or clamped,
\* so that the index it leaves is -1 or a valid position, and called with a
\* valid index it leaves a valid position.
C18_SelectChecked ==
    [][ lastEvent'.op = "selectVersion" =>
          /\ UNCHANGED <<messages, gameVersions, isGenerating, requestInProgress,
                         currentConversationId, currentParentMessageId>>
          /\ \/ currentGameIndex' = -1
             \/ currentGameIndex' \in 0..(Len(gameVersions) - 1) ]_vars

\* this step is the continuation of a generation call that ends in the catch
GenerationFails ==
    /\ lastEvent'.op = "generationSettles"
    /\ lastEvent'.result \in {"threw", "threwLate"}
    /\ genCall.active

\* C19: when a generation request fails the handler completes, the Message
\* list grows by exactly one assistant Message, the failure notice, the
\* optimistic user Message of that prompt is the entry right before it, and
\* the GameVersion list is as it was.
C19_FailureNotice ==
    [][ GenerationFails =>
          LET n == Len(messages') IN
          /\ n = Len(messages) + 1
          /\ messages'[n].role = "assistant"
          /\ messages'[n].content = "error, retry"
          /\ n >= 2
          /\ messages'[n - 1] = genCall.newMessages[Len(genCall.newMessages)]
          /\ gameVersions' = gameVersions ]_vars

\* C20: whichever operation of the HTTP client layer is called, when the
\* response arrives with a status outside 200-299 the call ends in an error,
\* never in a returned value.
C20_NonOkStatusFails ==
    (http.op # "" /\ http.reply.fetch = "resolves" /\ http.status \notin 200..299)
        => http.result.threw

\* C21: an accepted submitPrompt hands exactly one generation request to
\* fetch, a new-game one or a history-based one; a loadConversation hands
\* exactly one fetch; and no other step sends anything: the continuation of
\* a failed request sends it again neither for a generation nor for a load.
C21_SingleAttempt ==
    /\ [](requestsSent = submits)
    /\ [][ /\ AcceptedSubmit =>
                /\ requestsSent' = requestsSent + 1
                /\ genCall'.request.kind \in {"new", "history"}
           /\ ~AcceptedSubmit => requestsSent' = requestsSent
           /\ OutstandingLoads' - OutstandingLoads =
                 CASE lastEvent'.op = "loadConversation" -> 1
                   [] lastEvent'.op = "loadSettles" -> -1
                   [] OTHER -> 0 ]_vars

\* a generation request has failed and was not sent again
C21_Witness ==
    /\ lastEvent = Event("generationSettles", "threw")
    /\ requestsSent = 1
    /\ ~genCall.active

\* C22: for as long as the response to the outstanding generation request
\* has not arrived, the in-flight guard and the generating flag are set and
\* every submitPrompt is rejected, changing nothing; only the arrival of the
\* response ends the call: no load, reset, selection or file update and no
\* timer does.
C22_HungRequestKeepsGuard ==
    /\ [](genCall.active => (requestInProgress /\ isGenerating))
    /\ [][ genCall.active =>
            /\ lastEvent'.op = "submitPrompt" =>
                  /\ lastEvent'.result = "rejected"
                  /\ UNCHANGED <<ctl, genCall, requestsSent>>
            /\ lastEvent'.op # "generationSettles" =>
                  /\ genCall'.active
                  /\ UNCHANGED <<requestInProgress, isGenerating>> ]_vars

\* the request is still outstanding after a reset, and a submission made
\* then was rejected
C22_Witness ==
    /\ genCall.active
    /\ requestInProgress
    /\ afterReset
    /\ lastEvent = Event("submitPrompt", "rejected")

\* C23: in every reachable state each GameVersion's id is its zero-based
\* position in the GameVersion list (so the ids are pairwise distinct).
C23_IdIsPosition ==
    \A i \in 1..Len(gameVersions) : gameVersions[i].id = i - 1

\* C24: a submitPrompt that succeeds keeps the GameVersions held when the
\* response arrives, unchanged and in order, and adds exactly one at the end;
\* a submitPrompt that is rejected or fails, the sending of an accepted one,
\* and selectVersion leave the list as it is; the list gets shorter only in
\* a step of loadConversation or resetConversation.
C24_AppendOnly ==
    [][ /\ GenerationSucceeds =>
            /\ Len(gameVersions') = Len(gameVersions) + 1
            /\ SubSeq(gameVersions', 1, Len(gameVersions)) = gameVersions
        /\ (GenerationFails \/ lastEvent'.op \in {"submitPrompt", "selectVersion"})
              => gameVersions' = gameVersions
        /\ Len(gameVersions') < Len(gameVersions)
              => lastEvent'.op \in {"loadSettles", "resetConversation"} ]_vars

\* a request succeeded after a load had replaced the list it was sent from
C24_Witness ==
    /\ lastEvent = Event("generationSettles", "ok")
    /\ Len(gameVersions) = 3
    /\ gameVersions[1].messageId = "m1"

\* C25: in every reachable state, when conversationId and parentMessageId
\* are both non-empty, parentMessageId names a message of the conversation
\* conversationId names; and a history-based request pairs a conversation_id
\* with a parent_message_id of a message of that conversation.
C25_ParentBelongsToConversation ==
    /\ []((currentConversationId # "" /\ currentParentMessageId # "")
            => parentHome = currentConversationId)
    /\ [][ (AcceptedSubmit /\ genCall'.request.kind = "history")
            => parentHome = genCall'.request.conversation_id ]_vars

\* C26: in every reachable state, for each GameVersion of the version list
\* the Message list holds an assistant Message whose id is that version's
\* messageId.
C26_VersionHasMessage ==
    \A i \in 1..Len(gameVersions) :
        \E j \in 1..Len(messages) :
            /\ messages[j].role = "assistant"
            /\ messages[j].id = gameVersions[i].messageId

\* the Messages of a list
Entries(list) == {list[j] : j \in 1..Len(list)}

\* C27: after resetConversation, for as long as no load is started and no
\* submission accepted, the Message list holds no Message that was in it
\* before the reset: a step leaves the list as it is, or is the arrival of
\* the response to the request that was outstanding at the reset and then
\* puts in none of the Messages that call had seen in the list.
C27_ResetMessagesGone ==
    [][ (afterReset /\ afterReset') =>
          \/ messages' = messages
          \/ /\ genCall.active
             /\ lastEvent'.op = "generationSettles"
             /\ Entries(messages') \cap Entries(genCall.newMessages) = {} ]_vars

\* C28: the files an updateVersionFiles wrote into a GameVersion while a
\* generation request was outstanding are not lost when the request settles:
\* whether it succeeds or fails, every GameVersion held at that moment holds
\* the same files after it.
C28_UpdateSurvivesResponse ==
    [][ (genCall.active /\ lastEvent'.op = "generationSettles") =>
          /\ Len(gameVersions') >= Len(gameVersions)
          /\ \A i \in 1..Len(gameVersions) :
                gameVersions'[i].files = gameVersions[i].files ]_vars

\* an update has written files into a version while a request is outstanding
C28_Witness ==
    /\ genCall.active
    /\ lastEvent.op = "updateVersionFiles"
    /\ \E i \in 1..Len(gameVersions) : gameVersions[i].files \in NewFiles

\* C29: a loadConversation that fails, because the fetch rejects, the status
\* is not 2xx, the body is not JSON or a backend message cannot be converted,
\* leaves conversationId, parentMessageId, the Message list, the GameVersion
\* list and the selection index exactly as they were.
C29_LoadAllOrNothing ==
    [][ (lastEvent'.op = "loadSettles" /\ lastEvent'.result \in {"threw", "threwLate"})
          => UNCHANGED <<currentConversationId, currentParentMessageId,
                         messages, gameVersions, currentGameIndex>> ]_vars

\* C30: when two loadConversation calls overlap and both succeed, then in
\* either arrival order the state that the second arrival leaves is the one
\* a load of the conversation requested last gives: its conversationId,
\* Message list, GameVersion list, selection index and parentMessageId.
C30_LastRequestedWins ==
    [][ (/\ lastEvent'.op = "loadSettles"
         /\ lastEvent'.result = "ok"
         /\ OutstandingLoads = 1
         /\ \/ latest.outcome = "pending"
            \/ latest.outcome = "ok" /\ lastLoaded.id = latest.id)
        => LET loaded == Conversations[latest.id] IN
           /\ currentConversationId' = latest.id
           /\ messages' = LoadedMessages(loaded.messages)
           /\ gameVersions' = LoadedGameVersions(loaded.messages)
           /\ currentGameIndex' = LoadedIndex(Len(loaded.messages))
           /\ currentParentMessageId' =
                LoadedParentMessageId(loaded.messages, currentParentMessageId)
      ]_vars

====
